---- MODULE Spec2Model ----
(***************************************************************************)
(* The cycle controller of soulsy: src/src/controller/control.rs.          *)
(*                                                                         *)
(* The Controller owns a CycleData (four ordered cycles, one per slot) and *)
(* four optional "equipped" entries.  The host calls handle_key_event,     *)
(* handle_menu_event (= Controller::toggle_item) and equipped_in_slot.     *)
(* CycleData itself (advance, toggle, read, write) lives in cycles.rs,     *)
(* whose source is not at hand: those four operations are modelled from    *)
(* spec.md section 4.1.  The persistent store is a collaborator: a read    *)
(* is an input of construction, a write an output of toggle_item.          *)
(***************************************************************************)
EXTENDS Integers, Sequences, FiniteSets, TLC

\* ---------------------------------------------------------------- bounds
\* Number of distinct CycleEntry values the host can hand to the controller.
NumEntries == 3
\* Largest number of entries held by the four cycles together.
MaxTotal == 4
\* Largest distance handed to advance when it is checked as a function.
MaxDistance == 4
\* Largest key code, of a key pressed or of a key bound in the settings.
MaxKey == 6
\* Where the persistent store's contents are followed: the number of distinct
\* entries, and the largest number of entries the four cycles hold together.
NumStored == 2
MaxStored == 2
\* The number of host threads that call the entry points.
NumThreads == 2

\* ------------------------------------------------------------ data types
\* CycleEntry::default(), the sentinel "no item".
EmptyEntry == 0

Entries == 1 .. NumEntries

Slots == {"Power", "Utility", "Left", "Right"}

Actions == Slots \cup {"Activate", "ShowHide", "Irrelevant"}

\* ButtonEvent as the handler reads it: IsDown() / IsUp().
ButtonEvents == {"down", "up"}

MenuEventResponses == {"ItemAdded", "ItemRemoved", "NoChange"}

\* impl Default for KeyEventResponse
DefaultKeyEventResponse ==
    [handled |-> FALSE, start_timer |-> "Irrelevant", stop_timer |-> "Irrelevant"]

\* Option<CycleEntry>: <<>> is None, <<e>> is Some(e).
None == << >>

unwrap_or_default(opt) == IF opt = None THEN EmptyEntry ELSE opt[1]

\* CycleData::default(): four empty cycles.
DefaultCycleData == [s \in Slots |-> << >>]

\* -------------------------------------------------- sequences (helpers)
Range(S) == {S[i] : i \in 1 .. Len(S)}

Count(S, e) == Cardinality({i \in 1 .. Len(S) : S[i] = e})

NoDuplicates(S) == \A i, j \in 1 .. Len(S) : S[i] = S[j] => i = j

SameMultiset(S, T) ==
    /\ Len(S) = Len(T)
    /\ \A e \in Range(S) \cup Range(T) : Count(S, e) = Count(T, e)

\* The number of entries the four cycles hold together.
Total(cyc) == Len(cyc["Power"]) + Len(cyc["Utility"]) + Len(cyc["Left"]) + Len(cyc["Right"])

\* Position of the first element equal to e, 0 when absent.
Position(S, e) ==
    IF e \in Range(S) THEN CHOOSE i \in 1 .. Len(S) : S[i] = e /\ \A j \in 1 .. (i - 1) : S[j] # e
    ELSE 0

RemoveAt(S, i) == [j \in 1 .. (Len(S) - 1) |-> IF j < i THEN S[j] ELSE S[j + 1]]

\* ----------------------------------------------- CycleData (spec 4.1)
\* The sequence after advance(slot, distance): a circular left rotation by
\* distance modulo the length; the empty sequence is left alone.
RotateLeft(S, distance) ==
    IF Len(S) = 0 THEN S
    ELSE LET d == distance % Len(S)
         IN [i \in 1 .. Len(S) |-> S[((i - 1 + d) % Len(S)) + 1]]

\* CycleData::advance(which, distance): the cycles afterwards and the entry
\* returned (the new top, or the sentinel for an empty cycle or a non-slot).
advance(cyc, which, distance) ==
    IF which \in Slots
    THEN LET S == RotateLeft(cyc[which], distance)
         IN [cycles |-> [cyc EXCEPT ![which] = S],
             next   |-> IF Len(S) = 0 THEN EmptyEntry ELSE S[1]]
    ELSE [cycles |-> cyc, next |-> EmptyEntry]

\* CycleData::toggle(which, item): remove the entry if the slot has it,
\* append it at the end otherwise; a non-slot action changes nothing.
toggle(cyc, which, item) ==
    IF which \in Slots
    THEN IF item \in Range(cyc[which])
         THEN [cycles |-> [cyc EXCEPT ![which] = RemoveAt(@, Position(@, item))],
               result |-> "ItemRemoved"]
         ELSE [cycles |-> [cyc EXCEPT ![which] = Append(@, item)],
               result |-> "ItemAdded"]
    ELSE [cycles |-> cyc, result |-> "NoChange"]

\* The duplicate-free sequences over the entries, and the cycle data the
\* persistent store can hold.
DupFreeSeqs ==
    UNION {{S \in [1 .. n -> Entries] : NoDuplicates(S)} : n \in 0 .. NumEntries}

CycleDatas == {cyc \in [Slots -> DupFreeSeqs] : Total(cyc) <= MaxTotal}

\* What CycleData::read() can return: Ok(data) for a readable store, Err for
\* a missing or corrupt one.
ReadResults == [ok : {TRUE}, data : CycleDatas] \cup {[ok |-> FALSE, data |-> DefaultCycleData]}

\* The persistent store: readable or not (missing, corrupt), the cycle data
\* it holds, and how the most recent write attempt ended.
NoStore == [ok |-> FALSE, data |-> DefaultCycleData, last_write |-> "none"]

\* CycleData::read() on a store.
read(st) == IF st.ok THEN [ok |-> TRUE, data |-> st.data] ELSE [ok |-> FALSE, data |-> DefaultCycleData]

\* CycleData::write() on a store: a successful write replaces the contents, a
\* failed one leaves them.
write(cyc, st, write_ok) ==
    IF write_ok THEN [ok |-> TRUE, data |-> cyc, last_write |-> "ok"]
    ELSE [st EXCEPT !.last_write = "failed"]

\* Result::unwrap_or_default() on what read() returned.
read_unwrap_or_default(r) == IF r.ok THEN r.data ELSE DefaultCycleData

\* ------------------------------------------------------------ Controller
VARIABLES
    cycles,     \* Controller.cycles
    equipped,   \* Controller.equipped_power / _utility / _left / _right
    pre,        \* Controller.cycles as the call in progress found them
    last,       \* the call whose response the host has yet to take: its inputs,
                \* its result and what it asked of the host
    keys,       \* user_settings() key bindings and the key code last classified
    store,      \* the persistent store, where its contents are followed
    lock,       \* the thread that holds the CONTROLLER mutex, 0 when it is free
    threads     \* each host thread's position in the entry point it called

\* The Controller and the record of its calls.
ctl == <<cycles, equipped, pre, last>>

vars == <<cycles, equipped, pre, last, keys, store, lock, threads>>

\* The key codes and the bindings user_settings() can hold.
KeyCodes == 0 .. MaxKey

Bindings == {"left", "right", "power", "utility", "activate", "showhide"}

Settings == [Bindings -> KeyCodes]

\* impl From<u32> for Action: the first binding equal to the key code, in
\* the order of the if-chain.
action_from_power_first(value, settings) ==
    IF value = settings["left"] THEN "Left"
    ELSE IF value = settings["power"] THEN "Power"
    ELSE IF value = settings["right"] THEN "Right"
    ELSE IF value = settings["utility"] THEN "Utility"
    ELSE IF value = settings["activate"] THEN "Activate"
    ELSE IF value = settings["showhide"] THEN "ShowHide"
    ELSE "Irrelevant"

action_from(value, settings) ==
    IF value = settings["left"] THEN "Left"
    ELSE IF value = settings["right"] THEN "Right"
    ELSE IF value = settings["power"] THEN "Power"
    ELSE IF value = settings["utility"] THEN "Utility"
    ELSE IF value = settings["activate"] THEN "Activate"
    ELSE IF value = settings["showhide"] THEN "ShowHide"
    ELSE "Irrelevant"

\* No key classified yet, under the bindings given.
NoKey(settings) == [settings |-> settings, value |-> 0, action |-> "none"]

\* The bindings the controller's own specification runs under: each action
\* on a key of its own.
DefaultSettings ==
    [b \in Bindings |->
        CASE b = "left" -> 1 [] b = "right" -> 2 [] b = "power" -> 3
          [] b = "utility" -> 4 [] b = "activate" -> 5 [] b = "showhide" -> 6]

\* Controller::new(), given what CycleData::read() returned: the cycles read,
\* or the default when the read failed; the four equipped entries are the
\* default, None.
new_default_only(r) ==
    [cycles   |-> DefaultCycleData,
     equipped |-> [s \in Slots |-> None]]

new_equips_top(r) ==
    [cycles   |-> read_unwrap_or_default(r),
     equipped |-> [s \in Slots |->
                     IF Len(read_unwrap_or_default(r)[s]) = 0 THEN None
                     ELSE <<read_unwrap_or_default(r)[s][1]>>]]

new(r) ==
    [cycles   |-> read_unwrap_or_default(r),
     equipped |-> [s \in Slots |-> None]]

\* Controller::equipped_in_slot(slot)
equipped_in_slot_left_as_right(eq, slot) ==
    IF slot \in Slots
    THEN unwrap_or_default(eq[IF slot = "Left" THEN "Right" ELSE slot])
    ELSE EmptyEntry

equipped_in_slot(eq, slot) ==
    IF slot \in Slots THEN unwrap_or_default(eq[slot]) ELSE EmptyEntry

\* KeyEventResponse { handled, start_timer, stop_timer }
KeyEventResponse(handled, start_timer, stop_timer) ==
    [handled |-> handled, start_timer |-> start_timer, stop_timer |-> stop_timer]

\* What handle_key_event hands back: the cycles afterwards, the response, and
\* the host commands issued (alpha = the arguments of each
\* set_alpha_transition call, toggled = the number of toggle_hud_visibility
\* calls, writes = the number of CycleData::write calls).
KeyOutcome(cyc, resp, alpha, toggled) ==
    [cycles |-> cyc, resp |-> resp, alpha |-> alpha, toggled |-> toggled, writes |-> 0]

\* The test that opens handle_key_event: the action is not ShowHide, the
\* fade setting is on and the HUD is not transitioning.
fade_gate_inverted(action, fade, is_fading) == action # "ShowHide" /\ fade /\ is_fading

fade_gate_for_all(action, fade, is_fading) == fade /\ ~is_fading

fade_gate(action, fade, is_fading) == action # "ShowHide" /\ fade /\ ~is_fading

\* The match on the action in handle_key_event.
dispatch_left_as_right(cyc, action) ==
    CASE action = "Power" ->
            KeyOutcome(advance(cyc, action, 1).cycles, KeyEventResponse(TRUE, "Power", "Irrelevant"), << >>, 0)
      [] action = "Left" ->
            KeyOutcome(advance(cyc, "Right", 1).cycles, KeyEventResponse(TRUE, "Left", "Irrelevant"), << >>, 0)
      [] action = "Right" ->
            KeyOutcome(advance(cyc, action, 1).cycles, KeyEventResponse(TRUE, "Right", "Irrelevant"), << >>, 0)
      [] action = "Utility" ->
            KeyOutcome(advance(cyc, action, 1).cycles, KeyEventResponse(TRUE, "Utility", "Irrelevant"), << >>, 0)
      [] action = "Activate" ->
            KeyOutcome(cyc, KeyEventResponse(TRUE, "Irrelevant", "Utility"), << >>, 0)
      [] action = "ShowHide" ->
            KeyOutcome(cyc, [DefaultKeyEventResponse EXCEPT !.handled = TRUE], << >>, 1)
      [] OTHER ->
            KeyOutcome(cyc, DefaultKeyEventResponse, << >>, 0)

dispatch_activate_advances(cyc, action) ==
    CASE action = "Power" ->
            KeyOutcome(advance(cyc, action, 1).cycles, KeyEventResponse(TRUE, "Power", "Irrelevant"), << >>, 0)
      [] action = "Left" ->
            KeyOutcome(advance(cyc, action, 1).cycles, KeyEventResponse(TRUE, "Left", "Irrelevant"), << >>, 0)
      [] action = "Right" ->
            KeyOutcome(advance(cyc, action, 1).cycles, KeyEventResponse(TRUE, "Right", "Irrelevant"), << >>, 0)
      [] action = "Utility" ->
            KeyOutcome(advance(cyc, action, 1).cycles, KeyEventResponse(TRUE, "Utility", "Irrelevant"), << >>, 0)
      [] action = "Activate" ->
            KeyOutcome(advance(cyc, "Utility", 1).cycles, KeyEventResponse(TRUE, "Irrelevant", "Utility"), << >>, 0)
      [] action = "ShowHide" ->
            KeyOutcome(cyc, [DefaultKeyEventResponse EXCEPT !.handled = TRUE], << >>, 1)
      [] OTHER ->
            KeyOutcome(cyc, DefaultKeyEventResponse, << >>, 0)

dispatch(cyc, action) ==
    CASE action = "Power" ->
            KeyOutcome(advance(cyc, action, 1).cycles, KeyEventResponse(TRUE, "Power", "Irrelevant"), << >>, 0)
      [] action = "Left" ->
            KeyOutcome(advance(cyc, action, 1).cycles, KeyEventResponse(TRUE, "Left", "Irrelevant"), << >>, 0)
      [] action = "Right" ->
            KeyOutcome(advance(cyc, action, 1).cycles, KeyEventResponse(TRUE, "Right", "Irrelevant"), << >>, 0)
      [] action = "Utility" ->
            KeyOutcome(advance(cyc, action, 1).cycles, KeyEventResponse(TRUE, "Utility", "Irrelevant"), << >>, 0)
      [] action = "Activate" ->
            KeyOutcome(cyc, KeyEventResponse(TRUE, "Irrelevant", "Utility"), << >>, 0)
      [] action = "ShowHide" ->
            KeyOutcome(cyc, [DefaultKeyEventResponse EXCEPT !.handled = TRUE], << >>, 1)
      [] OTHER ->
            KeyOutcome(cyc, DefaultKeyEventResponse, << >>, 0)

\* Controller::handle_key_event(action, button), with what the host answers
\* for user_settings().fade() and get_is_transitioning().  The button is read
\* (IsDown, IsUp) into two unused locals.
handle_key_event_down_only(cyc, action, button, fade, is_fading) ==
    IF fade_gate(action, fade, is_fading)
    THEN KeyOutcome(cyc, [DefaultKeyEventResponse EXCEPT !.handled = TRUE], << <<TRUE, 1>> >>, 0)
    ELSE IF button = "down" THEN dispatch(cyc, action)
         ELSE KeyOutcome(cyc, DefaultKeyEventResponse, << >>, 0)

handle_key_event(cyc, action, button, fade, is_fading) ==
    IF fade_gate(action, fade, is_fading)
    THEN KeyOutcome(cyc, [DefaultKeyEventResponse EXCEPT !.handled = TRUE], << <<TRUE, 1>> >>, 0)
    ELSE dispatch(cyc, action)

\* What toggle_item hands back: the cycles afterwards, the value returned,
\* and the host commands issued (notified = the number of notify_player
\* calls, writes = the number of CycleData::write calls, failed = a write was
\* attempted and returned Err).
MenuOutcome(cyc, result, writes, failed) ==
    [cycles |-> cyc, result |-> result, notified |-> 1, writes |-> writes, failed |-> failed]

\* Controller::toggle_item(action, item), with the outcome of the write it
\* may attempt.
toggle_item_always_writes(cyc, action, item, write_ok) ==
    LET t == toggle(cyc, action, item)
    IN MenuOutcome(t.cycles, t.result, 1, ~write_ok)

toggle_item_propagates(cyc, action, item, write_ok) ==
    LET t       == toggle(cyc, action, item)
        changed == t.result \in {"ItemAdded", "ItemRemoved"}
    IN MenuOutcome(t.cycles, IF changed /\ ~write_ok THEN "NoChange" ELSE t.result,
                   IF changed THEN 1 ELSE 0, changed /\ ~write_ok)

toggle_item_on_clone(cyc, action, item, write_ok) ==
    LET t       == toggle(cyc, action, item)
        changed == t.result \in {"ItemAdded", "ItemRemoved"}
    IN MenuOutcome(cyc, t.result, IF changed THEN 1 ELSE 0, changed /\ ~write_ok)

toggle_item_writes_added_only(cyc, action, item, write_ok) ==
    LET t     == toggle(cyc, action, item)
        added == t.result = "ItemAdded"
    IN MenuOutcome(t.cycles, t.result, IF added THEN 1 ELSE 0, added /\ ~write_ok)

toggle_item_quiet(cyc, action, item, write_ok) ==
    LET t       == toggle(cyc, action, item)
        changed == t.result \in {"ItemAdded", "ItemRemoved"}
    IN [MenuOutcome(t.cycles, t.result, IF changed THEN 1 ELSE 0, changed /\ ~write_ok)
            EXCEPT !.notified = IF changed THEN 1 ELSE 0]

toggle_item_unwraps(cyc, action, item, write_ok) ==
    LET t       == toggle(cyc, action, item)
        changed == t.result \in {"ItemAdded", "ItemRemoved"}
    IN MenuOutcome(t.cycles, IF changed /\ ~write_ok THEN "panic" ELSE t.result,
                   IF changed THEN 1 ELSE 0, changed /\ ~write_ok)

toggle_item(cyc, action, item, write_ok) ==
    LET t       == toggle(cyc, action, item)
        changed == t.result \in {"ItemAdded", "ItemRemoved"}
    IN MenuOutcome(t.cycles, t.result, IF changed THEN 1 ELSE 0, changed /\ ~write_ok)

\* The record of a call; the fields a call does not have hold fixed values.
CallRecord(op, action, button, fade, is_fading, item, resp, result, entry, alpha, toggled, notified, writes, failed) ==
    [op |-> op, action |-> action, button |-> button, fade |-> fade,
     is_fading |-> is_fading, item |-> item, resp |-> resp,
     result |-> result, entry |-> entry, alpha |-> alpha, toggled |-> toggled,
     notified |-> notified, writes |-> writes, failed |-> failed]

NoCall ==
    CallRecord("none", "Irrelevant", "down", FALSE, FALSE, EmptyEntry, DefaultKeyEventResponse,
               "NoChange", EmptyEntry, << >>, 0, 0, 0, FALSE)

\* The host threads, and a thread that is outside the entry points.
Threads == 1 .. NumThreads

IdleThread == [pc |-> "idle", call |-> NoCall, snap |-> DefaultCycleData]

\* The host calls from one thread at a time: the mutex is free whenever a
\* call starts, and a call is one step.
OneThread ==
    /\ lock = 0
    /\ threads = [t \in Threads |-> IdleThread]

\* The record of Controller::new(): failed = CycleData::read() returned Err.
NewCall(read_failed) ==
    CallRecord("new", "Irrelevant", "down", FALSE, FALSE, EmptyEntry, DefaultKeyEventResponse,
               "NoChange", EmptyEntry, << >>, 0, 0, 0, read_failed)

\* The state after construction: the static CONTROLLER is built on first
\* use from whatever CycleData::read() returns.  pre holds the data read (the
\* default when the read failed).
Init ==
    \E r \in ReadResults :
        /\ cycles = new(r).cycles
        /\ equipped = new(r).equipped
        /\ pre = r.data
        /\ last = NewCall(~r.ok)
        /\ keys = NoKey(DefaultSettings)
        /\ store = NoStore
        /\ OneThread

\* The host delivers a key event and handle_key_event runs under the lock.
KeyEvent(actions, buttons, fades) ==
    /\ last.op = "none"
    /\ \E action \in actions, button \in buttons, fade \in fades, is_fading \in fades :
        \E r \in {handle_key_event(cycles, action, button, fade, is_fading)} :
           /\ cycles' = r.cycles
           /\ pre' = cycles
           /\ last' = CallRecord("handle_key_event", action, button, fade, is_fading, EmptyEntry,
                                 r.resp, "NoChange", EmptyEntry, r.alpha, r.toggled, 0, r.writes, FALSE)
           /\ UNCHANGED equipped

HandleKeyEvent == KeyEvent(Actions, ButtonEvents, BOOLEAN)

\* The host delivers a menu event: handle_menu_event runs toggle_item under
\* the lock.  The write, when one is attempted, succeeds or fails (a call
\* that attempts none is taken once, with write_ok = TRUE).  Calls that would
\* take the cycles past max_total entries are not explored.
MenuEvent(items, max_total) ==
    /\ last.op = "none"
    /\ \E action \in Actions, item \in items, write_ok \in BOOLEAN :
        \E r \in {toggle_item(cycles, action, item, write_ok)} :
           /\ Total(r.cycles) <= max_total
           /\ (r.writes = 0 => write_ok)
           /\ cycles' = r.cycles
           /\ pre' = cycles
           /\ last' = CallRecord("toggle_item", action, "down", FALSE, FALSE, item,
                                 DefaultKeyEventResponse, r.result, EmptyEntry, << >>, 0,
                                 r.notified, r.writes, r.failed)
           /\ UNCHANGED equipped

HandleMenuEvent == MenuEvent(Entries, MaxTotal)

\* The host asks what is equipped in a slot.
EquippedInSlot ==
    /\ last.op = "none"
    /\ \E slot \in Actions :
        /\ pre' = cycles
        /\ last' = CallRecord("equipped_in_slot", slot, "down", FALSE, FALSE, EmptyEntry,
                              DefaultKeyEventResponse, "NoChange", equipped_in_slot(equipped, slot),
                              << >>, 0, 0, 0, FALSE)
        /\ UNCHANGED <<cycles, equipped>>

\* The call returns: the host takes the response and may call again.
Return ==
    /\ last.op # "none"
    /\ last' = NoCall
    /\ pre' = cycles
    /\ UNCHANGED <<cycles, equipped>>

\* The controller by itself: what it reads from the store is an input of
\* its construction and what it writes an output of toggle_item (writes,
\* failed); the store's contents are followed in SpecStore.
Next ==
    \/ HandleKeyEvent /\ UNCHANGED <<keys, store, lock, threads>>
    \/ HandleMenuEvent /\ UNCHANGED <<keys, store, lock, threads>>
    \/ EquippedInSlot /\ UNCHANGED <<keys, store, lock, threads>>
    \/ Return /\ UNCHANGED <<keys, store, lock, threads>>

Spec == Init /\ [][Next]_vars

\* equipped_in_slot as a function of the Controller it is called on: a
\* Controller whose equipped entries hold any values (on_equip_change, which
\* is to set them, is not implemented yet) and whose cycles hold at most one
\* entry.
EquippedStates == [Slots -> {None} \cup {<<e>> : e \in Entries}]

InitEquipped ==
    /\ cycles \in {cyc \in CycleDatas : Total(cyc) <= 1}
    /\ equipped \in EquippedStates
    /\ pre = cycles
    /\ last = NoCall
    /\ keys = NoKey(DefaultSettings)
    /\ store = NoStore
    /\ OneThread

NextEquipped ==
    \/ EquippedInSlot /\ UNCHANGED <<keys, store, lock, threads>>
    \/ Return /\ UNCHANGED <<keys, store, lock, threads>>

\* Key classification as a function of the key code and the bindings: the
\* entry points classify the key (Action::from) before they take the lock.
InitKeys ==
    /\ cycles = DefaultCycleData
    /\ equipped = [s \in Slots |-> None]
    /\ pre = cycles
    /\ last = NoCall
    /\ \E settings \in Settings : keys = NoKey(settings)
    /\ store = NoStore
    /\ OneThread

\* An entry point classifies the key it was handed.
Classify ==
    /\ keys.action = "none"
    /\ \E value \in KeyCodes :
          keys' = [settings |-> keys.settings, value |-> value,
                   action |-> action_from(value, keys.settings)]
    /\ UNCHANGED <<ctl, store, lock, threads>>

\* The entry point goes on with the action; the next key is yet to come.
Classified ==
    /\ keys.action # "none"
    /\ keys' = NoKey(keys.settings)
    /\ UNCHANGED <<ctl, store, lock, threads>>

NextKeys == Classify \/ Classified

SpecKeys == InitKeys /\ [][NextKeys]_vars

SpecEquipped == InitEquipped /\ [][NextEquipped]_vars

\* The controller with the persistent store behind it.  The store holds any
\* duplicate-free cycle data of at most MaxStored entries among NumStored, or
\* is missing; the process may restart, building the controller anew.
StoredSeqs ==
    UNION {{S \in [1 .. n -> 1 .. NumStored] : NoDuplicates(S)} : n \in 0 .. MaxStored}

StoredDatas == {cyc \in [Slots -> StoredSeqs] : Total(cyc) <= MaxStored}

InitStore ==
    /\ store \in {NoStore} \cup [ok : {TRUE}, data : StoredDatas, last_write : {"none"}]
    /\ cycles = new(read(store)).cycles
    /\ equipped = new(read(store)).equipped
    /\ pre = read(store).data
    /\ last = NewCall(~read(store).ok)
    /\ keys = NoKey(DefaultSettings)
    /\ OneThread

\* The process ends and starts again: the static CONTROLLER is built anew.
Restart ==
    /\ last.op = "none"
    /\ cycles' = new(read(store)).cycles
    /\ equipped' = new(read(store)).equipped
    /\ pre' = read(store).data
    /\ last' = NewCall(~read(store).ok)
    /\ UNCHANGED <<keys, store, lock, threads>>

\* The key events taken are the ones that rotate a cycle, the button down
\* and fade off: the others leave the cycles alone, and the store does not
\* depend on the button or on fade.
NextStore ==
    \/ /\ KeyEvent(Slots, {"down"}, {FALSE})
       /\ UNCHANGED <<keys, store, lock, threads>>
    \/ /\ MenuEvent(1 .. NumStored, MaxStored)
       /\ store' = IF last'.writes > 0 THEN write(cycles', store, ~last'.failed) ELSE store
       /\ UNCHANGED <<keys, lock, threads>>
    \/ Return /\ UNCHANGED <<keys, store, lock, threads>>
    \/ Restart

SpecStore == InitStore /\ [][NextStore]_vars

\* The entry points called from several host threads.  A thread calls an
\* entry point, waits for the CONTROLLER mutex, runs the handler while it
\* holds the mutex (toggle_item in two steps when it writes: the toggle and
\* the notification, then the write), and releases the mutex on return.  A
\* call's arguments do not depend on the controller, so they are drawn when
\* the handler starts.  snap is the cycle data when the mutex was taken.
InitThreads ==
    /\ cycles = new(read(NoStore)).cycles
    /\ equipped = new(read(NoStore)).equipped
    /\ pre = DefaultCycleData
    /\ last = NoCall
    /\ keys = NoKey(DefaultSettings)
    /\ store = NoStore
    /\ OneThread

\* The thread calls handle_key_event, handle_menu_event or equipped_in_slot.
Enter(t) ==
    /\ threads[t].pc = "idle"
    /\ threads' = [threads EXCEPT ![t] = [pc |-> "wait", call |-> NoCall, snap |-> DefaultCycleData]]
    /\ UNCHANGED <<cycles, lock>>

\* CONTROLLER.lock() that does not wait for the mutex to be free.
lock_unguarded(t) ==
    /\ threads[t].pc = "wait"
    /\ lock' = t
    /\ threads' = [threads EXCEPT ![t] = [pc |-> "locked", call |-> NoCall, snap |-> cycles]]
    /\ UNCHANGED cycles

\* CONTROLLER.lock(): the thread takes the mutex once it is free.
Lock(t) ==
    /\ threads[t].pc = "wait"
    /\ lock = 0
    /\ lock' = t
    /\ threads' = [threads EXCEPT ![t] = [pc |-> "locked", call |-> NoCall, snap |-> cycles]]
    /\ UNCHANGED cycles

\* Controller::handle_key_event under the mutex.
KeyBody(t) ==
    /\ threads[t].pc = "locked"
    /\ \E action \in Actions, button \in ButtonEvents, fade \in BOOLEAN, is_fading \in BOOLEAN :
        \E r \in {handle_key_event(cycles, action, button, fade, is_fading)} :
           /\ cycles' = r.cycles
           /\ threads' = [threads EXCEPT ![t] =
                 [pc |-> "unlock", snap |-> threads[t].snap,
                  call |-> CallRecord("handle_key_event", action, button, fade, is_fading, EmptyEntry,
                                      r.resp, "NoChange", EmptyEntry, r.alpha, r.toggled, 0, r.writes, FALSE)]]
    /\ UNCHANGED lock

\* Controller::toggle_item under the mutex, up to the write: the toggle and
\* the notification.  failed tells how the write will end.
MenuBody(t) ==
    /\ threads[t].pc = "locked"
    /\ \E action \in Actions, item \in 1 .. NumStored, write_ok \in BOOLEAN :
        \E r \in {toggle_item(cycles, action, item, write_ok)} :
           /\ Total(r.cycles) <= MaxStored
           /\ (r.writes = 0 => write_ok)
           /\ cycles' = r.cycles
           /\ threads' = [threads EXCEPT ![t] =
                 [pc |-> IF r.writes > 0 THEN "write" ELSE "unlock", snap |-> threads[t].snap,
                  call |-> CallRecord("toggle_item", action, "down", FALSE, FALSE, item,
                                      DefaultKeyEventResponse, r.result, EmptyEntry, << >>, 0,
                                      r.notified, r.writes, r.failed)]]
    /\ UNCHANGED lock

\* self.cycles.write() comes to its end.
WriteEnd(t) ==
    /\ threads[t].pc = "write"
    /\ threads' = [threads EXCEPT ![t].pc = "unlock"]
    /\ UNCHANGED <<cycles, lock>>

\* Controller::equipped_in_slot under the mutex.
EquippedBody(t) ==
    /\ threads[t].pc = "locked"
    /\ \E slot \in Actions :
          threads' = [threads EXCEPT ![t] =
             [pc |-> "unlock", snap |-> threads[t].snap,
              call |-> CallRecord("equipped_in_slot", slot, "down", FALSE, FALSE, EmptyEntry,
                                  DefaultKeyEventResponse, "NoChange", equipped_in_slot(equipped, slot),
                                  << >>, 0, 0, 0, FALSE)]]
    /\ UNCHANGED <<cycles, lock>>

\* The entry point returns: the MutexGuard is dropped.
Unlock(t) ==
    /\ threads[t].pc = "unlock"
    /\ lock' = 0
    /\ threads' = [threads EXCEPT ![t] = IdleThread]
    /\ UNCHANGED cycles

NextThreads ==
    \/ \E t \in Threads : Enter(t) /\ UNCHANGED <<equipped, pre, last, keys, store>>
    \/ \E t \in Threads : Lock(t) /\ UNCHANGED <<equipped, pre, last, keys, store>>
    \/ \E t \in Threads : KeyBody(t) /\ UNCHANGED <<equipped, pre, last, keys, store>>
    \/ \E t \in Threads : MenuBody(t) /\ UNCHANGED <<equipped, pre, last, keys, store>>
    \/ \E t \in Threads : WriteEnd(t) /\ UNCHANGED <<equipped, pre, last, keys, store>>
    \/ \E t \in Threads : EquippedBody(t) /\ UNCHANGED <<equipped, pre, last, keys, store>>
    \/ \E t \in Threads : Unlock(t) /\ UNCHANGED <<equipped, pre, last, keys, store>>

SpecThreads == InitThreads /\ [][NextThreads]_vars

TypeOK ==
    /\ cycles \in [Slots -> Seq(Entries)]
    /\ pre \in [Slots -> Seq(Entries)]
    /\ \A s \in Slots : equipped[s] = None
    /\ last.op \in {"none", "new", "handle_key_event", "toggle_item", "equipped_in_slot"}
    /\ last.action \in Actions
    /\ last.result \in MenuEventResponses

\* ------------------------------------------------------------ properties
\* The call in progress.
IsKeyEvent == last.op = "handle_key_event"

IsToggle == last.op = "toggle_item"

\* The fade gate fires: fade is enabled, the HUD is not transitioning, and
\* the action is not ShowHide.
GateFires == IsKeyEvent /\ last.action # "ShowHide" /\ last.fade /\ ~last.is_fading

HandledOnly == [handled |-> TRUE, start_timer |-> "Irrelevant", stop_timer |-> "Irrelevant"]

\* S with its first element moved to the end.
LeftByOne(S) == IF S = << >> THEN << >> ELSE Append(Tail(S), Head(S))

\* C1: a key event other than ShowHide, with fade enabled and the HUD not
\* transitioning, is answered {handled, Irrelevant, Irrelevant}, asks for
\* set_alpha_transition(true, 1.0), and leaves the four cycles as they were.
C1_FadeGate ==
    GateFires =>
        /\ last.resp = HandledOnly
        /\ last.alpha = << <<TRUE, 1>> >>
        /\ cycles = pre

\* The gate swallowed a Power key whose cycle an advance would have changed.
C1_Witness ==
    /\ GateFires
    /\ last.action = "Power"
    /\ Len(pre["Power"]) >= 2
    /\ last.resp.handled

\* C2: when the gate does not fire, a slot key rotates that slot's cycle left
\* by one (an empty cycle stays empty), leaves the other three cycles alone
\* and is answered {handled, start_timer: the slot, stop_timer: Irrelevant}.
C2_SlotKeyDispatch ==
    (IsKeyEvent /\ ~GateFires /\ last.action \in Slots) =>
        /\ cycles[last.action] = LeftByOne(pre[last.action])
        /\ \A s \in Slots \ {last.action} : cycles[s] = pre[s]
        /\ last.resp = [handled |-> TRUE, start_timer |-> last.action, stop_timer |-> "Irrelevant"]

\* An ungated slot key moved a cycle of three while another cycle held an entry.
C2_Witness ==
    /\ IsKeyEvent /\ ~GateFires /\ last.action \in Slots
    /\ Len(pre[last.action]) = 3
    /\ cycles[last.action] # pre[last.action]
    /\ \E s \in Slots \ {last.action} : Len(pre[s]) > 0

\* C3: handle_key_event(Irrelevant, _) is answered with the default response,
\* changes no cycle and issues no host command, whatever the fade setting
\* and the transition flag.
C3_IrrelevantNoOp ==
    (IsKeyEvent /\ last.action = "Irrelevant") =>
        /\ last.resp = DefaultKeyEventResponse
        /\ cycles = pre
        /\ last.alpha = << >>
        /\ last.toggled = 0

\* C4: handle_key_event(ShowHide, _) calls toggle_hud_visibility once, never
\* set_alpha_transition, changes no cycle and is answered {handled,
\* Irrelevant, Irrelevant}, whatever the fade setting and the transition flag.
C4_ShowHide ==
    (IsKeyEvent /\ last.action = "ShowHide") =>
        /\ last.toggled = 1
        /\ last.alpha = << >>
        /\ cycles = pre
        /\ last.resp = HandledOnly

\* ShowHide arrived while fade was enabled and the HUD was not transitioning.
C4_Witness ==
    /\ IsKeyEvent /\ last.action = "ShowHide"
    /\ last.fade /\ ~last.is_fading
    /\ last.toggled = 1

\* C5: when the gate does not fire, Activate leaves the four cycles as they
\* were and is answered {handled, start_timer: Irrelevant, stop_timer: Utility}.
C5_Activate ==
    (IsKeyEvent /\ ~GateFires /\ last.action = "Activate") =>
        /\ cycles = pre
        /\ last.resp = [handled |-> TRUE, start_timer |-> "Irrelevant", stop_timer |-> "Utility"]

\* An ungated Activate arrived while the Utility cycle held two or more entries.
C5_Witness ==
    /\ IsKeyEvent /\ ~GateFires /\ last.action = "Activate"
    /\ Len(pre["Utility"]) >= 2
    /\ last.resp.stop_timer = "Utility"

\* C6: a write of the cycle data is attempted once by a toggle_item call that
\* returns ItemAdded or ItemRemoved, and by no other call: not by a
\* toggle_item with another result, not by handle_key_event, not by
\* equipped_in_slot.
C6_WritesOnMembershipChange ==
    /\ IsToggle => (last.writes = IF last.result \in {"ItemAdded", "ItemRemoved"} THEN 1 ELSE 0)
    /\ ~IsToggle => last.writes = 0

\* A toggle removed an entry and wrote once.
C6_Witness ==
    /\ IsToggle
    /\ last.result = "ItemRemoved"
    /\ last.writes = 1
    /\ Len(cycles[last.action]) < Len(pre[last.action])

\* C7: a toggle_item call whose write fails returns the ItemAdded/ItemRemoved
\* result, and leaves the cycles, that the same call leaves when its write
\* succeeds.
C7_WriteFailureIsolation ==
    (IsToggle /\ last.failed) =>
        /\ last.result \in {"ItemAdded", "ItemRemoved"}
        /\ last.result = toggle_item(pre, last.action, last.item, TRUE).result
        /\ cycles = toggle_item(pre, last.action, last.item, TRUE).cycles
        /\ cycles # pre

\* A toggle added an entry although its write failed.
C7_Witness ==
    /\ IsToggle /\ last.failed
    /\ last.result = "ItemAdded"
    /\ last.item \in Range(cycles[last.action])

\* C8: no slot ever holds an entry twice, and after a toggle that returns
\* ItemAdded the entry is in that slot exactly once.
C8_DuplicateFree ==
    /\ \A s \in Slots : NoDuplicates(cycles[s])
    /\ (IsToggle /\ last.result = "ItemAdded") => Count(cycles[last.action], last.item) = 1

\* A toggle added to one slot an entry that another slot holds too.
C8_Witness ==
    /\ IsToggle /\ last.result = "ItemAdded"
    /\ \E s \in Slots \ {last.action} : last.item \in Range(cycles[s])
    /\ Count(cycles[last.action], last.item) = 1

\* n key events for one slot in a row, none of them gated.
RECURSIVE KeyEvents(_, _, _)
KeyEvents(cyc, slot, n) ==
    IF n = 0 THEN cyc
    ELSE KeyEvents(handle_key_event(cyc, slot, "down", FALSE, FALSE).cycles, slot, n - 1)

\* No call is in progress: the host holds no response it has yet to take.
BetweenCalls == last.op = "none"

\* C9: a slot key keeps the multiset of its cycle; between calls, advance
\* keeps the multiset of a non-empty cycle for every distance, a distance of
\* the cycle's length restores its order, and as many ungated key events as
\* the slot has entries bring all cycles back to where they were.
C9_RotationCircular ==
    /\ (IsKeyEvent /\ last.action \in Slots) => SameMultiset(cycles[last.action], pre[last.action])
    /\ \A s \in Slots :
          (BetweenCalls /\ Len(cycles[s]) > 0) =>
              /\ \A d \in 0 .. MaxDistance :
                    SameMultiset(advance(cycles, s, d).cycles[s], cycles[s])
              /\ advance(cycles, s, Len(cycles[s])).cycles = cycles
              /\ KeyEvents(cycles, s, Len(cycles[s])) = cycles

\* A slot key on the release of the button reordered a cycle of three.
C9_Witness ==
    /\ IsKeyEvent /\ last.action \in Slots /\ last.button = "up"
    /\ Len(pre[last.action]) = 3
    /\ cycles[last.action] # pre[last.action]
    /\ SameMultiset(cycles[last.action], pre[last.action])

C12_InvalidToggle ==
    (IsToggle /\ last.action \in {"Activate", "ShowHide", "Irrelevant"}) =>
        /\ last.result \in MenuEventResponses \ {"ItemAdded", "ItemRemoved"}
        /\ cycles = pre
        /\ last.writes = 0
        /\ last.notified = 1

\* A toggle with Activate arrived while the cycles held entries.
C12_Witness ==
    /\ IsToggle /\ last.action = "Activate"
    /\ Total(pre) > 0
    /\ last.result = "NoChange"
    /\ last.notified = 1

\* C13: Controller::new() after a failed read has four empty cycles, after a
\* successful read the cycles read; either way no equipped entry is set.
C13_LoadResilience ==
    last.op = "new" =>
        /\ \A s \in Slots : equipped[s] = None
        /\ last.failed => \A s \in Slots : cycles[s] = << >>
        /\ ~last.failed => cycles = pre

\* The controller was built although the read failed.
C13_Witness ==
    /\ last.op = "new"
    /\ last.failed
    /\ Total(cycles) = 0

\* The well-formed values of a KeyEventResponse.
KeyEventResponses == [handled : BOOLEAN, start_timer : Actions, stop_timer : Actions]

\* C16: every call ends with a well-formed value (a KeyEventResponse, a
\* MenuEventResponse, a CycleEntry), also after a failed read and when its
\* write fails.
C16_WellFormedResponses ==
    /\ IsKeyEvent => last.resp \in KeyEventResponses
    /\ IsToggle => last.result \in MenuEventResponses
    /\ last.op = "equipped_in_slot" => last.entry \in Entries \cup {EmptyEntry}

\* A toggle whose write failed returned ItemRemoved.
C16_Witness ==
    /\ IsToggle /\ last.failed
    /\ last.result = "ItemRemoved"

\* C19: a key event has the same response, the same effect on the cycles and
\* the same host commands for every ButtonEvent, so that the press and the
\* release of an ungated slot key advance the slot's cycle by one each.
C19_ButtonIgnored ==
    IsKeyEvent =>
        /\ \A b \in ButtonEvents :
              LET r == handle_key_event(pre, last.action, b, last.fade, last.is_fading)
              IN /\ r.cycles = cycles
                 /\ r.resp = last.resp
                 /\ r.alpha = last.alpha
                 /\ r.toggled = last.toggled
        /\ (~GateFires /\ last.action \in Slots /\ last.button = "down") =>
              handle_key_event(cycles, last.action, "up", last.fade, last.is_fading).cycles[last.action]
                  = LeftByOne(LeftByOne(pre[last.action]))

\* The release of an ungated slot key advanced a cycle of three.
C19_Witness ==
    /\ IsKeyEvent /\ ~GateFires /\ last.action \in Slots
    /\ last.button = "up"
    /\ Len(pre[last.action]) = 3
    /\ cycles[last.action] = LeftByOne(pre[last.action])
    /\ last.resp.start_timer = last.action

\* C20: no equipped entry is ever set, and equipped_in_slot returns the
\* sentinel for every slot, also for a slot whose cycle has a top.
C20_EquippedNeverSet ==
    /\ \A s \in Slots : equipped[s] = None
    /\ last.op = "equipped_in_slot" => last.entry = EmptyEntry
    /\ (IsKeyEvent /\ last.action \in Slots) => equipped_in_slot(equipped, last.action) = EmptyEntry

\* A slot key advanced a cycle to a new top and nothing is equipped there.
C20_Witness ==
    /\ IsKeyEvent /\ ~GateFires /\ last.action \in Slots
    /\ Len(cycles[last.action]) >= 2
    /\ cycles[last.action][1] # pre[last.action][1]
    /\ equipped[last.action] = None
    /\ equipped_in_slot(equipped, last.action) = EmptyEntry

\* C15: equipped_in_slot returns the sentinel for Activate, ShowHide and
\* Irrelevant, and for a slot the entry tracked there or the sentinel when
\* none is; it changes neither the cycles nor the equipped entries.
C15_EquippedPureRead ==
    /\ [](last.op = "equipped_in_slot" =>
            /\ last.entry = IF last.action \in Slots /\ equipped[last.action] # None
                            THEN equipped[last.action][1]
                            ELSE EmptyEntry
            /\ cycles = pre)
    /\ [][last'.op = "equipped_in_slot" => (cycles' = cycles /\ equipped' = equipped)]_vars

\* The left hand's entry was asked for while the right hand tracked another.
C15_Witness ==
    /\ last.op = "equipped_in_slot" /\ last.action = "Left"
    /\ equipped["Left"] # None /\ equipped["Right"] # None
    /\ equipped["Left"] # equipped["Right"]
    /\ last.entry = equipped["Left"][1]

\* The actions in the order the bindings are compared, with their bindings.
MatchOrder == <<"Left", "Right", "Power", "Utility", "Activate", "ShowHide">>

BindingOf == <<"left", "right", "power", "utility", "activate", "showhide">>

\* C18: a key code equal to no bound code is Irrelevant; otherwise it is the
\* action of the first binding equal to it, in the order Left, Right, Power,
\* Utility, Activate, ShowHide.
C18_KeyClassification ==
    keys.action # "none" =>
        LET matches == {i \in 1 .. 6 : keys.settings[BindingOf[i]] = keys.value}
        IN /\ keys.action \in Actions
           /\ matches = {} => keys.action = "Irrelevant"
           /\ \A i \in matches : (\A j \in matches : i <= j) => keys.action = MatchOrder[i]

\* A key bound to Right and to Power was classified as Right.
C18_Witness ==
    /\ keys.action = "Right"
    /\ keys.settings["power"] = keys.value
    /\ keys.settings["right"] = keys.value
    /\ keys.settings["left"] # keys.value

\* The entries a slot holds, whatever their order.
Members(cyc) == [s \in Slots |-> Range(cyc[s])]

InHandler(t) == threads[t].pc \in {"locked", "write", "unlock"}

HasRun(t) == threads[t].pc \in {"write", "unlock"}

\* What the call of thread t gives when it runs alone on the cycle data the
\* thread found when it took the mutex: it leaves cycles as they are now and
\* returns what the thread got.
Sequential(t) ==
    LET c == threads[t].call
        snap == threads[t].snap
    IN CASE c.op = "toggle_item" ->
              LET r == toggle_item(snap, c.action, c.item, ~c.failed)
              IN /\ cycles = r.cycles
                 /\ c.result = r.result
                 /\ c.writes = r.writes
         [] c.op = "handle_key_event" ->
              LET r == handle_key_event(snap, c.action, c.button, c.fade, c.is_fading)
              IN /\ cycles = r.cycles
                 /\ c.resp = r.resp
         [] OTHER ->
              /\ cycles = snap
              /\ c.entry = equipped_in_slot(equipped, c.action)

\* C14: the entry points called from several threads run one after another,
\* in the order the mutex is taken: at most one thread is inside a handler
\* and it holds the mutex; the cycles change only in the handler of the
\* holder; each call leaves the cycles and returns the result it would running
\* alone on the cycles it found; a toggle that added an entry makes the next
\* toggle of that entry in that slot a removal and no cycle ever holds an
\* entry twice; at most one write is under way, and the cycles do not change
\* until it has ended.
C14_AtomicEntryPoints ==
    /\ [](/\ \A t \in Threads : InHandler(t) => lock = t
          /\ \A t \in Threads : threads[t].pc = "locked" => cycles = threads[t].snap
          /\ \A t \in Threads : HasRun(t) => Sequential(t)
          /\ \A t \in Threads :
                (HasRun(t) /\ threads[t].call.result = "ItemAdded") =>
                    toggle_item(cycles, threads[t].call.action, threads[t].call.item, TRUE).result
                        = "ItemRemoved"
          /\ \A s \in Slots : NoDuplicates(cycles[s])
          /\ Cardinality({t \in Threads : threads[t].pc = "write"}) <= 1)
    /\ [][cycles' # cycles =>
            (lock \in Threads /\ lock' = lock /\ threads[lock].pc = "locked"
             /\ \A t \in Threads : threads[t].pc # "write")]_vars

\* A thread is writing the entry it added while another one that called an
\* entry point waits for the mutex.
C14_Witness ==
    \E t, u \in Threads :
        /\ threads[t].pc = "write"
        /\ threads[t].call.result = "ItemAdded"
        /\ threads[u].pc = "wait"

====
